---- MODULE Spec2Model ----
(***************************************************************************)
(* K-means clustering (homework-1-camdenkr/k_means_clustering.py).        *)
(*                                                                         *)
(* The model covers choose_random_centroids, find_closest_centroids,       *)
(* get_centroids and the loop of run_k_means.  numpy arrays are objects    *)
(* of a heap, addressed by reference, so that aliasing between             *)
(* initial_centroids, current_centroids and the entries of                 *)
(* centroid_history is visible.                                            *)
(*                                                                         *)
(* Numbers.  Samples have integer coordinates.  A centroid coordinate is   *)
(* a quotient sum/count, kept as an exact fraction in lowest terms:        *)
(* a row is [num |-> <<n_1, .., n_Dim>>, den |-> d] and stands for         *)
(* (n_1/d, .., n_Dim/d).  den = 0 is the row numpy produces for 0.0/0.0,   *)
(* i.e. NaN in every coordinate.  Floating point rounding of the quotient  *)
(* and of sqrt-then-square in the distance is not modelled: distances are  *)
(* compared exactly.                                                       *)
(***************************************************************************)
EXTENDS Integers, Sequences, FiniteSets

VARIABLES pc, heap, samples, K, perm, initial_centroids, n_iter, iteration,
          centroid_history, current_centroids, clusters, exception

vars == <<pc, heap, samples, K, perm, initial_centroids, n_iter, iteration,
          centroid_history, current_centroids, clusters, exception>>

----------------------------------------------------------------------------
(* Bounds of the model *)

\* largest number of samples
MaxN == 2
\* largest number of initial centroids
MaxK == 3
\* largest n_iter
MaxIter == 2

\* the samples have two coordinates
Dim == 2

\* coordinates of the enumerated samples and initial centroids
Coord == {0, 1}

----------------------------------------------------------------------------
(* Rows and scalars *)

Zeros == [j \in 1..Dim |-> 0]

\* the row 0.0/0.0
NaNRow == [num |-> Zeros, den |-> 0]

\* a row holding integer coordinates
Row(p) == [num |-> p, den |-> 1]

IsNaN(x) == x.den = 0

RECURSIVE GCD(_, _)
GCD(a, b) == IF b = 0 THEN a ELSE GCD(b, a % b)

RECURSIVE GCDVec(_, _, _)
GCDVec(v, j, g) == IF j > Len(v) THEN g ELSE GCDVec(v, j + 1, GCD(g, v[j]))

\* sum / count, coordinate by coordinate; 0.0/0.0 when count = 0
\* (the sum of an empty cluster is the zero row)
Divide(sum, count) ==
    IF count = 0 THEN NaNRow
    ELSE LET g == GCDVec(sum, 1, count)
         IN  [num |-> [j \in 1..Dim |-> sum[j] \div g], den |-> count \div g]

VecAdd(u, v) == [j \in 1..Dim |-> u[j] + v[j]]

RECURSIVE SumSq(_, _)
SumSq(v, j) == IF j > Len(v) THEN 0 ELSE v[j] * v[j] + SumSq(v, j + 1)

\* norm(sample - centroid) ** 2 as a fraction; NaN when the centroid is NaN
SqDist(sample, centroid) ==
    IF IsNaN(centroid) THEN [num |-> 0, den |-> 0]
    ELSE [num |-> SumSq([j \in 1..Dim |->
                           sample.num[j] * centroid.den - centroid.num[j] * sample.den], 1),
          den |-> centroid.den * centroid.den * sample.den * sample.den]

\* a < b for two defined scalars
Less(a, b) == a.num * b.den < b.num * a.den

\* numpy's argmin scan: a later element replaces the minimum when it is not
\* >= the minimum (smaller, or NaN); the scan stops at the first NaN
RECURSIVE ArgMinScan(_, _, _)
ArgMinScan(d, i, best) ==
    IF i > Len(d) THEN best
    ELSE IF IsNaN(d[best]) THEN best
    ELSE IF IsNaN(d[i]) \/ Less(d[i], d[best]) THEN ArgMinScan(d, i + 1, i)
    ELSE ArgMinScan(d, i + 1, best)

\* 0-based index, as numpy returns it
ArgMin(d) == ArgMinScan(d, 2, 1) - 1

----------------------------------------------------------------------------
(* The functions of the program *)

find_closest_centroids_1based(smp, centroids) ==
    [i \in 1..Len(smp) |->
        ArgMin([c \in 1..Len(centroids) |-> SqDist(smp[i], centroids[c])]) + 1]

find_closest_centroids(smp, centroids) ==
    [i \in 1..Len(smp) |->
        ArgMin([c \in 1..Len(centroids) |-> SqDist(smp[i], centroids[c])])]

RECURSIVE MaxOf(_, _, _)
MaxOf(s, i, m) == IF i > Len(s) THEN m
                  ELSE MaxOf(s, i + 1, IF s[i] > m THEN s[i] ELSE m)

\* the loop of lines 65-67: counts and coordinate sums per cluster
RECURSIVE Accumulate(_, _, _, _)
Accumulate(smp, cl, i, acc) ==
    IF i > Len(cl) THEN acc
    ELSE Accumulate(smp, cl, i + 1,
            [acc EXCEPT ![cl[i] + 1] =
                [count |-> @.count + 1, sum |-> VecAdd(@.sum, smp[i].num)]])

get_centroids_no_divide(smp, cl) ==
    LET k   == MaxOf(cl, 2, cl[1]) + 1
        acc == Accumulate(smp, cl, 1, [c \in 1..k |-> [count |-> 0, sum |-> Zeros]])
    IN  [c \in 1..k |-> Row(acc[c].sum)]

get_centroids(smp, cl) ==
    LET k   == MaxOf(cl, 2, cl[1]) + 1
        acc == Accumulate(smp, cl, 1, [c \in 1..k |-> [count |-> 0, sum |-> Zeros]])
    IN  [c \in 1..k |-> Divide(acc[c].sum, acc[c].count)]

\* index sequences drawn with replacement
choice_with_replacement(n) == [1..n -> 1..n]

\* what np.random.permutation may produce for n rows
permutation(n) == {f \in [1..n -> 1..n] : \A i, j \in 1..n : f[i] = f[j] => i = j}

----------------------------------------------------------------------------
(* Inputs *)

Points == [1..Dim -> Coord]

SampleSets == UNION {[1..n -> {Row(p) : p \in Points}] : n \in 1..MaxN}

CentroidSets == UNION {[1..k -> {Row(p) : p \in Points}] : k \in 1..MaxK}

\* the documented scenario
ScenarioSamples == <<Row(<<1, 1>>), Row(<<1, 2>>), Row(<<9, 9>>), Row(<<9, 8>>)>>

ScenarioCentroids == <<Row(<<0, 0>>), Row(<<10, 10>>)>>

----------------------------------------------------------------------------
(* State machine *)

Init ==
    /\ pc = "start"
    /\ \E s \in SampleSets \cup {ScenarioSamples} : heap = <<s>>
    /\ samples = 1
    /\ K = 0
    /\ perm = <<>>
    /\ initial_centroids = 0
    /\ n_iter = 0
    /\ iteration = 0
    /\ centroid_history = <<>>
    /\ current_centroids = 0
    /\ clusters = <<>>
    /\ exception = "none"

\* the caller supplies an array of centroids (main, line 138)
FixedCentroids ==
    /\ pc = "start"
    /\ \E c \in CentroidSets \cup {ScenarioCentroids} :
          /\ heap' = Append(heap, c)
          /\ K' = Len(c)
    /\ initial_centroids' = Len(heap) + 1
    /\ pc' = "chosen"
    /\ UNCHANGED <<samples, perm, n_iter, iteration, centroid_history,
                   current_centroids, clusters, exception>>

\* choose_random_centroids(samples, k) with k <= len(samples)
ChooseRandomCentroids ==
    /\ pc = "start"
    /\ \E k \in 1..MaxK : \E f \in permutation(Len(heap[samples])) :
          /\ k <= Len(heap[samples])
          /\ K' = k
          /\ perm' = f
          /\ heap' = Append(heap, [i \in 1..k |-> Row(heap[samples][f[i]].num)])
    /\ initial_centroids' = Len(heap) + 1
    /\ pc' = "chosen"
    /\ UNCHANGED <<samples, n_iter, iteration, centroid_history,
                   current_centroids, clusters, exception>>

\* choose_random_centroids(samples, k) with k > len(samples): b[i] is out of range
ChooseRandomCentroidsOutOfRange ==
    /\ pc = "start"
    /\ \E k \in 1..MaxK : \E f \in permutation(Len(heap[samples])) :
          /\ k > Len(heap[samples])
          /\ K' = k
          /\ perm' = f
    /\ exception' = "IndexError"
    /\ pc' = "raised"
    /\ UNCHANGED <<heap, samples, initial_centroids, n_iter, iteration,
                   centroid_history, current_centroids, clusters>>

\* run_k_means is entered, lines 101-103
RunKMeans ==
    /\ pc = "chosen"
    /\ \E n \in 0..MaxIter : n_iter' = n
    /\ centroid_history' = <<>>
    /\ current_centroids' = initial_centroids
    /\ clusters' = <<>>
    /\ iteration' = 0
    /\ pc' = "loop"
    /\ UNCHANGED <<heap, samples, K, perm, initial_centroids, exception>>

\* the next iteration starts, lines 104-105
LoopHead ==
    /\ pc = "loop"
    /\ iteration < n_iter
    /\ centroid_history' = Append(centroid_history, current_centroids)
    /\ pc' = "assign"
    /\ UNCHANGED <<heap, samples, K, perm, initial_centroids, n_iter, iteration,
                   current_centroids, clusters, exception>>

\* line 107
Assign ==
    /\ pc = "assign"
    /\ clusters' = find_closest_centroids(heap[samples], heap[current_centroids])
    /\ pc' = "recompute"
    /\ UNCHANGED <<heap, samples, K, perm, initial_centroids, n_iter, iteration,
                   centroid_history, current_centroids, exception>>

RecomputeNoDivide ==
    /\ pc = "recompute"
    /\ heap' = Append(heap, get_centroids_no_divide(heap[samples], clusters))
    /\ current_centroids' = Len(heap) + 1
    /\ iteration' = iteration + 1
    /\ pc' = "loop"
    /\ UNCHANGED <<samples, K, perm, initial_centroids, n_iter, centroid_history,
                   clusters, exception>>

RecomputeInPlace ==
    /\ pc = "recompute"
    /\ heap' = [heap EXCEPT ![current_centroids] = get_centroids(heap[samples], clusters)]
    /\ iteration' = iteration + 1
    /\ pc' = "loop"
    /\ UNCHANGED <<samples, K, perm, initial_centroids, n_iter, centroid_history,
                   current_centroids, clusters, exception>>

\* line 109: get_centroids fills and divides a newly allocated array, and
\* current_centroids is rebound to it
Recompute ==
    /\ pc = "recompute"
    /\ heap' = Append(heap, get_centroids(heap[samples], clusters))
    /\ current_centroids' = Len(heap) + 1
    /\ iteration' = iteration + 1
    /\ pc' = "loop"
    /\ UNCHANGED <<samples, K, perm, initial_centroids, n_iter, centroid_history,
                   clusters, exception>>

ReturnWhenConverged ==
    /\ pc = "loop"
    /\ \/ iteration = n_iter
       \/ /\ iteration >= 1
          /\ heap[current_centroids] = heap[centroid_history[Len(centroid_history)]]
    /\ pc' = "done"
    /\ UNCHANGED <<heap, samples, K, perm, initial_centroids, n_iter, iteration,
                   centroid_history, current_centroids, clusters, exception>>

ReturnReassigned ==
    /\ pc = "loop"
    /\ iteration = n_iter
    /\ clusters' = IF iteration = 0 THEN clusters
                   ELSE find_closest_centroids(heap[samples], heap[current_centroids])
    /\ pc' = "done"
    /\ UNCHANGED <<heap, samples, K, perm, initial_centroids, n_iter, iteration,
                   centroid_history, current_centroids, exception>>

\* the loop is exhausted, line 111
Return ==
    /\ pc = "loop"
    /\ iteration = n_iter
    /\ pc' = "done"
    /\ UNCHANGED <<heap, samples, K, perm, initial_centroids, n_iter, iteration,
                   centroid_history, current_centroids, clusters, exception>>

Next ==
    \/ FixedCentroids
    \/ ChooseRandomCentroids
    \/ ChooseRandomCentroidsOutOfRange
    \/ RunKMeans
    \/ LoopHead
    \/ Assign
    \/ Recompute
    \/ Return

Spec == Init /\ [][Next]_vars

----------------------------------------------------------------------------
(* Notions used by the properties *)

N == Len(heap[samples])

\* the centroid set the next or the running assignment is computed against
Current == heap[current_centroids]

\* the centroid set recorded by the i-th iteration
History(i) == heap[centroid_history[i]]

\* the centroid set the last assignment was computed against
Last == History(Len(centroid_history))

InRun == pc \in {"loop", "assign", "recompute", "done"}

\* find_closest_centroids has returned and get_centroids is not yet called
Assigned == pc = "recompute"

\* get_centroids has returned for the assignment in clusters
Aggregated == pc \in {"loop", "done"} /\ iteration >= 1

Members(cl, c) == {i \in 1..Len(cl) : cl[i] = c}

EmptyIds(cl, k) == {c \in 0..(k - 1) : Members(cl, c) = {}}

RECURSIVE CoordSum(_, _, _)
CoordSum(smp, idx, j) ==
    IF idx = {} THEN 0
    ELSE LET i == CHOOSE x \in idx : TRUE
         IN  smp[i].num[j] + CoordSum(smp, idx \ {i}, j)

\* a <= b, both defined
Leq(a, b) == ~IsNaN(a) /\ ~IsNaN(b) /\ a.num * b.den <= b.num * a.den

\* centroid c (1-based) is at minimal distance from sample i
IsNearest(i, c) ==
    \A e \in 1..Len(Current) :
        Leq(SqDist(heap[samples][i], Current[c]), SqDist(heap[samples][i], Current[e]))

Stable(C) == get_centroids(heap[samples], find_closest_centroids(heap[samples], C)) = C

----------------------------------------------------------------------------
(* Properties *)

\* C1: in every iteration of a run the current centroid set and every entry
\* of the history have exactly K rows, K the number of initial centroids.
C1_CentroidCountIsK ==
    InRun => /\ Len(Current) = K
             /\ \A i \in 1..Len(centroid_history) : Len(History(i)) = K

\* C2: get_centroids never returns for an assignment that leaves a cluster id
\* in [0,K) without points (it fails with EmptyCluster instead), and no
\* centroid set of a run holds an undefined centroid.
C2_EmptyClusterFails ==
    /\ ~(Aggregated /\ EmptyIds(clusters, Len(Last)) # {})
    /\ InRun => \A c \in 1..Len(Current) : ~IsNaN(Current[c])

\* C3: find_closest_centroids returns exactly N cluster ids, each in [0,K),
\* and the i-th id is the one computed for the i-th sample.
C3_AssignmentShape ==
    Assigned =>
        /\ Len(clusters) = N
        /\ \A i \in 1..N :
              /\ clusters[i] \in 0..(Len(Current) - 1)
              /\ clusters[i] = find_closest_centroids(<<heap[samples][i]>>, Current)[1]

C3_Witness ==
    /\ Assigned
    /\ N >= 2
    /\ Len(Current) >= 2
    /\ \E i, j \in 1..N : clusters[i] # clusters[j]

\* C4: the id assigned to a sample is the lowest index of a centroid at
\* minimal squared distance from it.
C4_LowestNearest ==
    Assigned =>
        \A i \in 1..N :
            /\ IsNearest(i, clusters[i] + 1)
            /\ \A e \in 1..clusters[i] : ~IsNearest(i, e)

\* The same on centroid sets without an undefined row.
LowestNearestOnDefined ==
    (Assigned /\ \A c \in 1..Len(Current) : ~IsNaN(Current[c])) =>
        \A i \in 1..N :
            /\ IsNearest(i, clusters[i] + 1)
            /\ \A e \in 1..clusters[i] : ~IsNearest(i, e)

\* C5: when every cluster id in [0,k) has a sample, get_centroids returns k
\* rows and row c is the coordinate-wise mean of the samples assigned to c.
C5_CentroidIsMean ==
    (Aggregated /\ EmptyIds(clusters, Len(Last)) = {}) =>
        /\ Len(Current) = Len(Last)
        /\ \A c \in 1..Len(Current) :
              /\ ~IsNaN(Current[c])
              /\ \A j \in 1..Dim :
                    Current[c].num[j] * Cardinality(Members(clusters, c - 1))
                      = Current[c].den * CoordSum(heap[samples], Members(clusters, c - 1), j)

C5_Witness ==
    /\ Aggregated
    /\ EmptyIds(clusters, Len(Last)) = {}
    /\ Len(Last) >= 2
    /\ \E c \in 1..Len(Current) :
          /\ Cardinality(Members(clusters, c - 1)) >= 2
          /\ Current[c].den >= 2

\* C6: run_k_means returns after exactly n_iter iterations, with a history
\* of exactly n_iter centroid sets; the centroid set recomputed last is not in
\* the history; for n_iter = 0 the history and the assignment are empty.
C6_FixedIterationCount ==
    /\ InRun => Len(centroid_history) <= n_iter
    /\ pc = "done" =>
          /\ iteration = n_iter
          /\ Len(centroid_history) = n_iter
          /\ n_iter = 0 => (centroid_history = <<>> /\ clusters = <<>>)
          /\ n_iter >= 1 =>
                /\ \A i \in 1..n_iter : centroid_history[i] # current_centroids
                /\ Len(clusters) = N

\* a run of two iterations on centroids that never moved
C6_Witness ==
    /\ pc = "done"
    /\ n_iter = 2
    /\ History(1) = History(2)
    /\ Current = History(2)

\* C7: history[0] is the initial centroid set, each later entry is
\* get_centroids of the assignment against the entry before it, and the
\* returned assignment is the one against the last entry of the history.
C7_HistoryChain ==
    /\ centroid_history # <<>> => centroid_history[1] = initial_centroids
    /\ \A i \in 1..(Len(centroid_history) - 1) :
          History(i + 1) = get_centroids(heap[samples],
                              find_closest_centroids(heap[samples], History(i)))
    /\ (pc = "done" /\ n_iter >= 1) =>
          clusters = find_closest_centroids(heap[samples], History(n_iter))
    /\ (pc = "done" /\ n_iter = 1 /\ heap[samples] = ScenarioSamples
          /\ heap[initial_centroids] = ScenarioCentroids) =>
          clusters = <<0, 0, 1, 1>>

\* the documented scenario has returned, with its recomputed centroids
\* (1, 3/2) and (9, 17/2)
C7_Witness ==
    /\ pc = "done"
    /\ n_iter = 1
    /\ heap[samples] = ScenarioSamples
    /\ History(1) = ScenarioCentroids
    /\ Current = <<[num |-> <<2, 3>>, den |-> 2], [num |-> <<18, 17>>, den |-> 2]>>

\* the iteration that computed the assignment in clusters (0: none yet)
AssignedIn == IF pc = "assign" THEN Len(centroid_history) - 1 ELSE Len(centroid_history)

\* C8: once a recorded centroid set is stable, every later entry of the
\* history, the current centroid set and every assignment computed from then on
\* are the ones of that set.
C8_StableStays ==
    \A i \in 1..Len(centroid_history) :
        Stable(History(i)) =>
            /\ \A j \in i..Len(centroid_history) : History(j) = History(i)
            /\ Current = History(i)
            /\ AssignedIn >= i =>
                  clusters = find_closest_centroids(heap[samples], History(i))

\* the centroids moved in the first iteration and the second iteration ran
\* on a stable set
C8_Witness ==
    /\ pc = "done"
    /\ n_iter = 2
    /\ ~Stable(History(1))
    /\ Stable(History(2))
    /\ Len(History(2)) >= 2

\* C9: choose_random_centroids with 1 <= K <= N returns K rows, the
\* coordinates of the samples at K pairwise distinct positions.
C9_DistinctPositions ==
    (perm # <<>> /\ exception = "none") =>
        /\ K \in 1..N
        /\ Len(heap[initial_centroids]) = K
        /\ \E pos \in [1..K -> 1..N] :
              /\ \A i, j \in 1..K : pos[i] = pos[j] => i = j
              /\ \A i \in 1..K : heap[initial_centroids][i] = heap[samples][pos[i]]

C9_Witness ==
    /\ pc = "chosen"
    /\ exception = "none"
    /\ N = 4
    /\ K = 3
    /\ perm = <<3, 1, 4, 2>>
    /\ heap[initial_centroids] = <<Row(<<9, 9>>), Row(<<1, 1>>), Row(<<9, 8>>)>>

\* C10: no step changes an array that exists: the samples, the initial
\* centroids and the recorded centroid sets keep their values, and the history
\* keeps its entries, the first of which is the initial centroid array.
C10_NoMutation ==
    /\ [](samples = 1 /\ (centroid_history # <<>> => centroid_history[1] = initial_centroids))
    /\ [][/\ Len(heap') >= Len(heap)
          /\ \A r \in 1..Len(heap) : heap'[r] = heap[r]
          /\ samples' = samples
          /\ initial_centroids # 0 => initial_centroids' = initial_centroids
          /\ \A i \in 1..Len(centroid_history) :
                /\ Len(centroid_history') >= i
                /\ centroid_history'[i] = centroid_history[i]]_vars

\* the centroids moved twice and the first two recorded sets are what they were
C10_Witness ==
    /\ pc = "done"
    /\ n_iter >= 2
    /\ History(1) = heap[initial_centroids]
    /\ History(2) # History(1)
    /\ Current # History(2)

====
